---- MODULE Spec2Model ----
(***************************************************************************)
(* A model of the dotprompt format engine (python/src/dotprompt): the      *)
(* parser (parse.py), the document model with its serialisation and its    *)
(* substitution engine (models.py), and the validator (validators.py).     *)
(*                                                                         *)
(* Strings are sequences of characters.  A character is a TLA+ string:     *)
(* punctuation stands for itself, "NL" is the newline, "TAB" the tab, and  *)
(* a word such as "format_version" or "METADATA" is one indivisible run of *)
(* \w characters.  A text is the sequence of its lines (text.splitlines());*)
(* a dict is the sequence of its items in insertion order.  Header         *)
(* matching is case-insensitive in the code; the model writes header words *)
(* in upper case only.                                                     *)
(***************************************************************************)
EXTENDS Integers, Sequences, FiniteSets, TLC

VARIABLES
    lines,      \* the text handed to the parser / validator, as its lines
    pc,         \* the operation that produced the current state
    done,       \* the operations already run on the current text
    doc,        \* the PromptObject at hand: [metadata, defaults, content]
    err,        \* "none", or the kind of ValueError PromptParser raised
    errline,    \* the line number cited by that error (0: none)
    report,     \* the validator's result: [valid, errors, warnings]
    verr,       \* "none", or "no_input" when PromptValidator(...) raised
    doc0,       \* the document to_text() was called on
    round,      \* how many to_text() calls led to the current text
    kwargs,     \* the keyword arguments of the last process() call
    perr,       \* "none", or "unknown_var" when process() raised
    errkeys,    \* the key list in the message of that error
    out,        \* the string process() returned
    warned,     \* the warnings.warn calls of the last process() call
    builder,    \* the PromptBuilder at hand: [metadata, defaults, content]
    json,       \* the value the last to_json() call wrote
    jerr,       \* "none", or the kind of ValueError from_json raised
    heap,       \* the dict objects alive: heap[a] is the dict at address a
    refs        \* who holds which dicts: holder -> [m, d, c]

vars == <<lines, pc, done, doc, err, errline, report, verr, doc0, round,
          kwargs, perr, errkeys, out, warned, builder, json, jerr,
          heap, refs>>

\* What the operations on texts, process() and the builder / JSON
\* operations write, apart from pc, doc and doc0.
textVars == <<lines, done, err, errline, report, verr, round>>
procVars == <<kwargs, perr, errkeys, out, warned>>
jsonVars == <<builder, json, jerr>>
heapVars == <<heap, refs>>

----------------------------------------------------------------------------
(* Bounds of the model *)

\* Longest text typed line by line, in lines.
MaxLines == 4

\* Number of to_text() / parse round trips applied to one document.
MaxRounds == 1

\* Largest number of keyword arguments passed to process().
MaxKwargs == 2

\* Largest number of sections a text is assembled from.
MaxSections == 3

\* Largest number of lines in the section body under study.
MaxFieldLines == 3

----------------------------------------------------------------------------
(* Characters and Python's str primitives *)

NL == "NL"
TAB == "TAB"

\* str.isspace() for the characters of the model.
IsSpace(c) == c \in {" ", TAB, NL}

\* The regex class \w: letters, digits and the underscore.
IsWord(c) ==
    c \in {"a", "b", "c", "d", "x", "1", "None",
    "format_version", "METADATA", "DEFAULTS", "CONTENT"}

\* Code-point order of the characters, for sorted().
CharRank(c) ==
    LET order == <<TAB, NL, " ", "#", "%", "(", ")", "-", "1", ">", "@",
               "CONTENT", "DEFAULTS", "METADATA", "None", "[", "]",
               "a", "b", "c", "d", "format_version", "x", "{", "}">>
    IN  CHOOSE i \in 1..Len(order) : order[i] = c

\* s < t for Python strings (lexicographic by code point).
RECURSIVE StrLess(_, _)
StrLess(s, t) ==
    IF t = <<>> THEN FALSE
    ELSE IF s = <<>> THEN TRUE
    ELSE IF s[1] = t[1] THEN StrLess(Tail(s), Tail(t))
    ELSE CharRank(s[1]) < CharRank(t[1])

\* sorted(S) for a finite set of strings.
RECURSIVE SortedSeq(_)
SortedSeq(S) ==
    IF S = {} THEN <<>>
    ELSE LET m == CHOOSE x \in S : \A y \in S \ {x} : StrLess(x, y)
         IN  <<m>> \o SortedSeq(S \ {m})

\* c in s
Has(s, c) == \E i \in 1..Len(s) : s[i] = c

\* s.find(c) + 1: the first index of c in s, 0 when absent.
IndexOf(s, c) ==
    IF Has(s, c)
    THEN CHOOSE i \in 1..Len(s) : s[i] = c /\ \A j \in 1..(i-1) : s[j] # c
    ELSE 0

\* s[a-1:b] of Python, with 1-based inclusive bounds; empty when a > b.
Slice(s, a, b) == IF a > b THEN <<>> ELSE SubSeq(s, a, b)

\* str.strip()
Strip(s) ==
    IF \A i \in 1..Len(s) : IsSpace(s[i]) THEN <<>>
    ELSE LET a == CHOOSE i \in 1..Len(s) :
                      ~IsSpace(s[i]) /\ \A j \in 1..(i-1) : IsSpace(s[j])
             b == CHOOSE i \in 1..Len(s) :
                      ~IsSpace(s[i]) /\ \A j \in (i+1)..Len(s) : IsSpace(s[j])
         IN  SubSeq(s, a, b)

\* s.startswith(p), s.endswith(p)
StartsWith(s, p) == Len(s) >= Len(p) /\ SubSeq(s, 1, Len(p)) = p
EndsWith(s, p) == Len(s) >= Len(p) /\ SubSeq(s, Len(s) - Len(p) + 1, Len(s)) = p

\* sep.join(parts)
RECURSIVE Join(_, _)
Join(parts, sep) ==
    IF parts = <<>> THEN <<>>
    ELSE IF Len(parts) = 1 THEN parts[1]
    ELSE parts[1] \o sep \o Join(Tail(parts), sep)

\* s.split("\n")
RECURSIVE SplitNL(_)
SplitNL(s) ==
    LET i == IndexOf(s, NL)
    IN  IF i = 0 THEN <<s>>
        ELSE <<Slice(s, 1, i - 1)>> \o SplitNL(Slice(s, i + 1, Len(s)))

\* s.splitlines(): as split("\n"), without the empty piece after a final
\* newline, and empty for the empty string.
SplitLines(s) ==
    LET p == SplitNL(s)
    IN  IF p[Len(p)] = <<>> THEN Slice(p, 1, Len(p) - 1) ELSE p

\* str(v): None prints as the word None, a string as itself.
NoneVal == <<"\\None">>
Str(v) == IF v = NoneVal THEN <<"None">> ELSE v

----------------------------------------------------------------------------
(* Dicts: sequences of items [k, v] with distinct keys, in insertion order *)

Keys(d) == {d[i].k : i \in 1..Len(d)}

HasKey(d, k) == \E i \in 1..Len(d) : d[i].k = k

\* d[k]
Get(d, k) == d[CHOOSE i \in 1..Len(d) : d[i].k = k].v

\* d.get(k, dflt)
GetOr(d, k, dflt) == IF HasKey(d, k) THEN Get(d, k) ELSE dflt

\* d[k] = v: an existing key keeps its place, a new one goes last.
DictSet(d, k, v) ==
    IF HasKey(d, k)
    THEN [i \in 1..Len(d) |-> IF d[i].k = k THEN [k |-> k, v |-> v] ELSE d[i]]
    ELSE Append(d, [k |-> k, v |-> v])

\* del d[k] (when present)
DictDel(d, k) == SelectSeq(d, LAMBDA it : it.k # k)

\* d.update(u): the items of u set one after the other.
RECURSIVE DictUpdate(_, _)
DictUpdate(d, u) ==
    IF u = << >> THEN d ELSE DictUpdate(DictSet(d, u[1].k, u[1].v), Tail(u))

\* for key in keys: if key in d: del d[key]
RECURSIVE DictDelKeys(_, _)
DictDelKeys(d, keys) ==
    IF keys = << >> THEN d ELSE DictDelKeys(DictDel(d, keys[1]), Tail(keys))

\* d1 == d2 of Python: the same items, in whatever order.
DictEq(d1, d2) ==
    {d1[i] : i \in 1..Len(d1)} = {d2[i] : i \in 1..Len(d2)}

\* No PromptObject: what a failed construction leaves.  Its content is no
\* string, so that it differs from every document, the emptied one included.
NoDoc == [metadata |-> <<>>, defaults |-> <<>>, content |-> NoneVal]

\* Two documents equal in metadata, defaults and content.
DocEq(a, b) ==
    /\ DictEq(a.metadata, b.metadata)
    /\ DictEq(a.defaults, b.defaults)
    /\ a.content = b.content

----------------------------------------------------------------------------
(* parse.py: PromptParser.__init__ *)

HeaderWords == {"METADATA", "DEFAULTS", "CONTENT"}

\* section_header.fullmatch(line) on a stripped line: the header word, or
\* "" when the line is no header.  \[\s*(METADATA|DEFAULTS|CONTENT)\s*\]
HeaderFullMatch(line) ==
    LET n == Len(line)
        inner == Strip(Slice(line, 2, n - 1))
    IN  IF /\ n >= 3
           /\ line[1] = "["
           /\ line[n] = "]"
           /\ Len(inner) = 1
           /\ inner[1] \in HeaderWords
        THEN inner[1]
        ELSE ""

\* line.startswith('(%') and line.endswith('%)')
IsFullLineComment(line) ==
    StartsWith(line, <<"(", "%">>) /\ EndsWith(line, <<"%", ")">>)

\* The first loop: section_positions, the index of the last header line of
\* each section (1-based here; 0 when the section has no header).
ParserSectionPositions(ls) ==
    [w \in HeaderWords |->
        LET at == {i \in 1..Len(ls) :
                      LET line == Strip(ls[i])
                      IN  /\ line # <<>>
                          /\ line[1] # "#"
                          /\ HeaderFullMatch(line) = w}
        IN  IF at = {} THEN 0 ELSE CHOOSE i \in at : \A j \in at : j <= i]

\* The order check after the first loop: only DEFAULTS against CONTENT.
ParserOrderError(ls) ==
    LET pos == ParserSectionPositions(ls)
    IN  /\ pos["CONTENT"] # 0
        /\ pos["DEFAULTS"] # 0
        /\ pos["DEFAULTS"] > pos["CONTENT"]

\* A stripped line starting with '@': the field it declares.
\*   '>' in line:  key = line.split('>', 1)[0][1:].strip(), a multiline field
\*   otherwise:    parts = line[1:].split(' ', 1)
ParseField(line) ==
    IF Has(line, ">")
    THEN [multi |-> TRUE,
          key   |-> Strip(Slice(line, 2, IndexOf(line, ">") - 1)),
          value |-> <<>>]
    ELSE LET rest == Slice(line, 2, Len(line))
             sp   == IndexOf(rest, " ")
         IN  IF sp = 0
             THEN [multi |-> FALSE, key |-> Strip(rest), value |-> <<>>]
             ELSE [multi |-> FALSE,
                   key   |-> Strip(Slice(rest, 1, sp - 1)),
                   value |-> Strip(Slice(rest, sp + 1, Len(rest)))]

\* comment_pattern.sub('', line) with \(%[^%]*?%\)$ : the leftmost "(%"
\* from which no '%' occurs before the "%)" that ends the line is cut off.
StripTrailingComment(line) ==
    LET n == Len(line)
        starts == {i \in 1..(n - 3) :
                      /\ line[i] = "(" /\ line[i + 1] = "%"
                      /\ line[n - 1] = "%" /\ line[n] = ")"
                      /\ \A j \in (i + 2)..(n - 2) : line[j] # "%"}
    IN  IF starts = {} THEN line
        ELSE Slice(line, 1, (CHOOSE i \in starts : \A j \in starts : i <= j) - 1)

\* The state of the second loop.  current_key None and current_key "" are
\* both falsy and only tested for truth: both are the empty string here.
ParseStart ==
    [sec |-> "none", key |-> <<>>, metadata |-> <<>>, defaults |-> <<>>,
     content |-> <<>>, err |-> "none", errline |-> 0]

\* One iteration of the second loop, on raw line number i (i + 1 in the code).
ParseLine(st, raw, i) ==
    LET line == Strip(raw)
    IN  IF st.err # "none" THEN st
        ELSE IF line = <<>> \/ IsFullLineComment(line) THEN st
        ELSE IF HeaderFullMatch(line) # ""
        THEN [st EXCEPT !.key = <<>>,
                        !.sec = LET w == HeaderFullMatch(line)
                                IN  IF w = "METADATA" THEN "metadata"
                                    ELSE IF w = "DEFAULTS" THEN "defaults"
                                    ELSE "content"]
        ELSE IF st.sec \in {"metadata", "defaults"}
        THEN IF line[1] = "@"
             THEN LET f == ParseField(line)
                  IN  IF f.multi
                      THEN [st EXCEPT !.key = f.key,
                                      ![st.sec] = DictSet(@, f.key, <<>>)]
                      ELSE IF st.sec = "metadata" /\ f.value = <<>>
                      THEN [st EXCEPT !.err = "empty_value", !.errline = i]
                      ELSE [st EXCEPT ![st.sec] = DictSet(@, f.key, f.value)]
             ELSE IF st.key # <<>>
             THEN [st EXCEPT ![st.sec] =
                      DictSet(@, st.key, Get(@, st.key) \o <<NL>> \o line)]
             ELSE st
        ELSE IF st.sec = "content"
        THEN LET kept == Strip(StripTrailingComment(line))
             IN  IF kept # <<>>
                 THEN [st EXCEPT !.content = Append(@, kept)]
                 ELSE st
        ELSE st

RECURSIVE ParseLoop(_, _, _)
ParseLoop(st, ls, i) ==
    IF i > Len(ls) THEN st
    ELSE ParseLoop(ParseLine(st, ls[i], i), ls, i + 1)

\* not text.strip()
TextIsBlank(ls) == \A i \in 1..Len(ls) : Strip(ls[i]) = <<>>

ParseFail(kind, line) == [ok |-> FALSE, err |-> kind, errline |-> line, doc |-> NoDoc]

\* A variant of the parser without the final check of sections["content"].
ParseWithoutContentCheck(ls) ==
    IF TextIsBlank(ls) THEN ParseFail("empty_text", 0)
    ELSE IF ParserOrderError(ls) THEN ParseFail("order", 0)
    ELSE LET st == ParseLoop(ParseStart, ls, 1)
         IN  IF st.err # "none" THEN ParseFail(st.err, st.errline)
             ELSE IF ~HasKey(st.metadata, <<"format_version">>)
             THEN ParseFail("format_version", 0)
             ELSE [ok |-> TRUE, err |-> "none", errline |-> 0,
                   doc |-> [metadata |-> st.metadata,
                            defaults |-> st.defaults,
                            content  |-> Join(st.content, <<NL>>)]]

\* A variant of the parser without the final check of format_version.
ParseWithoutVersionCheck(ls) ==
    IF TextIsBlank(ls) THEN ParseFail("empty_text", 0)
    ELSE IF ParserOrderError(ls) THEN ParseFail("order", 0)
    ELSE LET st == ParseLoop(ParseStart, ls, 1)
         IN  IF st.err # "none" THEN ParseFail(st.err, st.errline)
             ELSE IF st.content = <<>> THEN ParseFail("content", 0)
             ELSE [ok |-> TRUE, err |-> "none", errline |-> 0,
                   doc |-> [metadata |-> st.metadata,
                            defaults |-> st.defaults,
                            content  |-> Join(st.content, <<NL>>)]]

\* PromptParser(text): the document in .obj, or the ValueError raised.
Parse(ls) ==
    IF TextIsBlank(ls) THEN ParseFail("empty_text", 0)
    ELSE IF ParserOrderError(ls) THEN ParseFail("order", 0)
    ELSE LET st == ParseLoop(ParseStart, ls, 1)
         IN  IF st.err # "none" THEN ParseFail(st.err, st.errline)
             ELSE IF st.content = <<>> THEN ParseFail("content", 0)
             ELSE IF ~HasKey(st.metadata, <<"format_version">>)
             THEN ParseFail("format_version", 0)
             ELSE [ok |-> TRUE, err |-> "none", errline |-> 0,
                   doc |-> [metadata |-> st.metadata,
                            defaults |-> st.defaults,
                            content  |-> Join(st.content, <<NL>>)]]

----------------------------------------------------------------------------
(* models.py: PromptObject serialisation *)

\* One item of _serialize_section: "@key >" and the value's lines indented
\* by two spaces when the value holds a newline, "@key value" otherwise.
SerializeItem(it) ==
    LET v == Str(it.v)
    IN  IF Has(v, NL)
        THEN LET vl == SplitNL(v)
             IN  Join(<< <<"@">> \o it.k \o <<" ", ">">> >>
                      \o [j \in 1..Len(vl) |-> <<" ", " ">> \o vl[j]], <<NL>>)
        ELSE <<"@">> \o it.k \o <<" ">> \o v

\* PromptObject._serialize_section
SerializeSection(d) ==
    Join([i \in 1..Len(d) |-> SerializeItem(d[i])], <<NL>>)

\* PromptObject.text / to_text()
ToText(d) ==
    Join(<< <<"[", "METADATA", "]">>, SerializeSection(d.metadata) >>
         \o (IF d.defaults # <<>>
             THEN << <<NL, "[", "DEFAULTS", "]">>, SerializeSection(d.defaults) >>
             ELSE << >>)
         \o << <<NL, "[", "CONTENT", "]">>, d.content >>,
         <<NL>>)

----------------------------------------------------------------------------
(* models.py: PromptObject.process and get_variables_info *)

\* re.sub(r'\(%[^%]*?%\)', '', s, flags=re.DOTALL): a span is cut when the
\* first '%' after its "(%" is the '%' of a "%)".
RECURSIVE StripComments(_)
StripComments(s) ==
    IF s = <<>> THEN <<>>
    ELSE LET k == IndexOf(Slice(s, 3, Len(s)), "%")
             j == IF k = 0 THEN 0 ELSE k + 2
         IN  IF /\ Len(s) >= 4 /\ s[1] = "(" /\ s[2] = "%"
                /\ j # 0 /\ j < Len(s) /\ s[j + 1] = ")"
             THEN StripComments(Slice(s, j + 2, Len(s)))
             ELSE <<s[1]>> \o StripComments(Tail(s))

\* The index of the first "}}" at or after from that no newline precedes
\* (counted from from), 0 when there is none: where {{(.*?)}} ends.
CloseBraces(s, from) ==
    LET ok == {j \in from..(Len(s) - 1) :
                  /\ s[j] = "}" /\ s[j + 1] = "}"
                  /\ \A m \in from..(j - 1) : s[m] # NL}
    IN  IF ok = {} THEN 0 ELSE CHOOSE j \in ok : \A m \in ok : j <= m

\* re.sub(r'{{(.*?)}}', r'{\1}', s)
RECURSIVE NormalizeBraces(_)
NormalizeBraces(s) ==
    IF s = <<>> THEN <<>>
    ELSE LET j == CloseBraces(s, 3)
         IN  IF Len(s) >= 4 /\ s[1] = "{" /\ s[2] = "{" /\ j # 0
             THEN <<"{">> \o Slice(s, 3, j - 1) \o <<"}">>
                  \o NormalizeBraces(Slice(s, j + 2, Len(s)))
             ELSE <<s[1]>> \o NormalizeBraces(Tail(s))

\* The length of the match of \{(\w+)\} at the start of s, 0 when none.
PlaceholderAt(s) ==
    IF Len(s) >= 3 /\ s[1] = "{" /\ IsWord(s[2])
    THEN LET e == CHOOSE i \in 2..Len(s) :
                      /\ \A m \in 2..i : IsWord(s[m])
                      /\ (i = Len(s) \/ ~IsWord(s[i + 1]))
         IN  IF e < Len(s) /\ s[e + 1] = "}" THEN e + 1 ELSE 0
    ELSE 0

\* set(re.findall(r'\{(\w+)\}', s))
FindVars(s) ==
    {Slice(s, i + 1, i + PlaceholderAt(Slice(s, i, Len(s))) - 2) :
        i \in {m \in 1..Len(s) : PlaceholderAt(Slice(s, m, Len(s))) # 0}}

\* The content after comment stripping and {{x}} -> {x}.
Processed(content) == NormalizeBraces(StripComments(content))

\* PromptObject.get_variables_info: name -> has_default, default_value.
GetVariablesInfo(d) ==
    [v \in FindVars(Processed(d.content)) |->
        [has_default   |-> HasKey(d.defaults, v),
         default_value |-> GetOr(d.defaults, v, NoneVal)]]

\* A variant of the value lookup in which a default wins over a keyword.
ResolvedValueDefaultsFirst(d, kw, key) ==
    GetOr(d.defaults, key, GetOr(kw, key, NoneVal))

\* values[key] = kwargs.get(key, self.defaults.get(key))
ResolvedValue(d, kw, key) == GetOr(kw, key, GetOr(d.defaults, key, NoneVal))

\* The final re.sub: every {name} whose value is not None becomes
\* str(value), the others stay.
RECURSIVE Substitute(_, _, _)
Substitute(s, d, kw) ==
    IF s = <<>> THEN <<>>
    ELSE LET n == PlaceholderAt(s)
         IN  IF n = 0 THEN <<s[1]>> \o Substitute(Tail(s), d, kw)
             ELSE LET val == ResolvedValue(d, kw, Slice(s, 2, n - 1))
                  IN  (IF val # NoneVal THEN Str(val) ELSE Slice(s, 1, n))
                      \o Substitute(Slice(s, n + 1, Len(s)), d, kw)

\* A variant of the keyword check that also accepts the keys of defaults.
ExtraKwargsBesidesDefaults(d, kw) ==
    Keys(kw) \ (FindVars(Processed(d.content)) \cup Keys(d.defaults))

\* The keys of kwargs that are no variable of the content.
ExtraKwargs(d, kw) == Keys(kw) \ FindVars(Processed(d.content))

\* A variant of used_defaults without the test "key not in kwargs".
UsedDefaultsIgnoringKwargs(d, kw) ==
    {key \in FindVars(Processed(d.content)) : HasKey(d.defaults, key)}

\* used_defaults and missing_keys of process().
UsedDefaults(d, kw) ==
    {key \in FindVars(Processed(d.content)) :
        ~HasKey(kw, key) /\ HasKey(d.defaults, key)}

MissingKeys(d, kw) ==
    {key \in FindVars(Processed(d.content)) : ResolvedValue(d, kw, key) = NoneVal}

\* The parts of the one warning message, in the order they are appended.
WarningParts(d, kw) ==
    (IF UsedDefaults(d, kw) # {}
     THEN <<[kind |-> "defaults_used", names |-> SortedSeq(UsedDefaults(d, kw))]>>
     ELSE <<>>)
    \o (IF MissingKeys(d, kw) # {}
        THEN <<[kind |-> "not_provided", names |-> SortedSeq(MissingKeys(d, kw))]>>
        ELSE <<>>)

\* A variant of process() that keeps the keyword values as new defaults.
RECURSIVE DocStoringKwargs(_, _)
DocStoringKwargs(d, kw) ==
    IF kw = << >> THEN d
    ELSE DocStoringKwargs(
             [d EXCEPT !.defaults = DictSet(@, kw[1].k, kw[1].v)], Tail(kw))

\* The document as process() leaves it: no attribute is assigned.
DocAfterProcess(d, kw) == d

\* PromptObject.process(**kw): the ValueError with its sorted key list, or
\* the string returned and the warnings.warn calls made.
Process(d, kw) ==
    IF ExtraKwargs(d, kw) # {}
    THEN [ok |-> FALSE, errkeys |-> SortedSeq(ExtraKwargs(d, kw)),
          out |-> <<>>, warned |-> <<>>, doc |-> DocAfterProcess(d, kw)]
    ELSE [ok |-> TRUE, errkeys |-> <<>>,
          out |-> Substitute(Processed(d.content), d, kw),
          warned |-> IF WarningParts(d, kw) # <<>>
                     THEN <<WarningParts(d, kw)>> ELSE <<>>,
          doc |-> DocAfterProcess(d, kw)]

----------------------------------------------------------------------------
(* models.py: the mutators of PromptObject *)

\* add_metadata(key, value): self.metadata[key] = value
AddMetadata(d, key, value) == [d EXCEPT !.metadata = DictSet(@, key, value)]

\* remove_metadata(key): any key, format_version included
RemoveMetadata(d, key) == [d EXCEPT !.metadata = DictDel(@, key)]

\* add_default(key, value)
AddDefault(d, key, value) == [d EXCEPT !.defaults = DictSet(@, key, value)]

\* remove_default(key)
RemoveDefault(d, key) == [d EXCEPT !.defaults = DictDel(@, key)]

\* update_metadata(metadata_dict)
UpdateMetadata(d, u) == [d EXCEPT !.metadata = DictUpdate(@, u)]

\* update_defaults(defaults_dict)
UpdateDefaults(d, u) == [d EXCEPT !.defaults = DictUpdate(@, u)]

\* remove_metadata_keys(keys)
RemoveMetadataKeys(d, keys) == [d EXCEPT !.metadata = DictDelKeys(@, keys)]

\* remove_default_keys(keys)
RemoveDefaultKeys(d, keys) == [d EXCEPT !.defaults = DictDelKeys(@, keys)]

\* update_content(new_content): self.content = new_content.strip()
UpdateContent(d, new) == [d EXCEPT !.content = Strip(new)]

----------------------------------------------------------------------------
(* models.py: to_json / from_json.  A JSON value is a string, null, or an   *)
(* object, the sequence of its members [k, v].                              *)

JStr(str) == [t |-> "str", s |-> str, items |-> << >>]
JNull == [t |-> "null", s |-> << >>, items |-> << >>]
JObj(members) == [t |-> "obj", s |-> << >>, items |-> members]

\* json.dumps of a dict of strings (None is written null).
JDict(d) ==
    JObj([i \in 1..Len(d) |->
            [k |-> d[i].k,
             v |-> IF d[i].v = NoneVal THEN JNull ELSE JStr(d[i].v)]])

\* json.loads of such an object.
PyDict(j) ==
    [i \in 1..Len(j.items) |->
        [k |-> j.items[i].k,
         v |-> IF j.items[i].v.t = "null" THEN NoneVal ELSE j.items[i].v.s]]

\* to_json(): defaults are written null when the dict is empty.
ToJson(d) ==
    JObj(<< [k |-> <<"metadata">>, v |-> JDict(d.metadata)],
            [k |-> <<"defaults">>,
             v |-> IF d.defaults # << >> THEN JDict(d.defaults) ELSE JNull],
            [k |-> <<"content">>, v |-> JStr(d.content)] >>)

\* from_json(json_str): the ValueError for a missing member, or the
\* PromptObject, defaults being data.get("defaults") or {}.
FromJson(j) ==
    IF j.t # "obj" \/ ~HasKey(j.items, <<"metadata">>)
                  \/ ~HasKey(j.items, <<"content">>)
    THEN [ok |-> FALSE, err |-> "invalid_json", doc |-> NoDoc]
    ELSE IF ~HasKey(Get(j.items, <<"metadata">>).items, <<"format_version">>)
    THEN [ok |-> FALSE, err |-> "no_format_version", doc |-> NoDoc]
    ELSE LET dflt == GetOr(j.items, <<"defaults">>, JNull)
         IN  [ok |-> TRUE, err |-> "none",
              doc |-> [metadata |-> PyDict(Get(j.items, <<"metadata">>)),
                       defaults |-> IF dflt.t = "obj" /\ dflt.items # << >>
                                    THEN PyDict(dflt) ELSE << >>,
                       content |-> Get(j.items, <<"content">>).s]]

----------------------------------------------------------------------------
(* creator.py: PromptBuilder *)

NoBuilder == [metadata |-> << >>, defaults |-> << >>, content |-> NoneVal]

DefaultVersion == <<"0", ".", "0", ".", "1">>

\* PromptBuilder()
BuilderNew ==
    [metadata |-> << [k |-> <<"format_version">>, v |-> DefaultVersion] >>,
     defaults |-> << >>, content |-> << >>]

\* metadata(key, value) with a key and a value
BuilderMetadata(b, key, value) == [b EXCEPT !.metadata = DictSet(@, key, value)]

\* metadata(dict): the builder's format_version survives the update.
BuilderMetadataDict(b, u) ==
    LET fv == GetOr(b.metadata, <<"format_version">>, DefaultVersion)
    IN  [b EXCEPT !.metadata = DictSet(DictUpdate(@, u), <<"format_version">>, fv)]

\* defaults(key, value)
BuilderDefaults(b, key, value) == [b EXCEPT !.defaults = DictSet(@, key, value)]

\* defaults(dict)
BuilderDefaultsDict(b, u) == [b EXCEPT !.defaults = DictUpdate(@, u)]

\* content(text): self._content = text.strip()
BuilderContent(b, text) == [b EXCEPT !.content = Strip(text)]

\* build(): the ValueError for an empty content, or a PromptObject holding
\* copies of the builder's dicts.
Build(b) ==
    IF b.content = << >>
    THEN [ok |-> FALSE, doc |-> NoDoc]
    ELSE [ok |-> TRUE,
          doc |-> [metadata |-> b.metadata, defaults |-> b.defaults,
                   content |-> b.content]]

\* PromptObject.to_builder(): a new builder, given the document's metadata
\* and defaults as dicts and its content.
ToBuilder(d) ==
    BuilderContent(
        BuilderDefaultsDict(BuilderMetadataDict(BuilderNew, d.metadata),
                            d.defaults),
        d.content)

----------------------------------------------------------------------------
(* validators.py: PromptValidator *)

\* SECTION_PATTERN.match(line.strip()): the header word the stripped line
\* begins with, or "".  match() anchors at the start only, so text may
\* follow the closing bracket.
HeaderPrefixMatch(line) ==
    IF Len(line) >= 3 /\ line[1] = "["
    THEN LET w == CHOOSE i \in 2..(Len(line) + 1) :
                      /\ \A m \in 2..(i - 1) : IsSpace(line[m])
                      /\ (i = Len(line) + 1 \/ ~IsSpace(line[i]))
             c == CHOOSE i \in (w + 1)..(Len(line) + 1) :
                      /\ \A m \in (w + 1)..(i - 1) : IsSpace(line[m])
                      /\ (i = Len(line) + 1 \/ ~IsSpace(line[i]))
         IN  IF /\ w <= Len(line) /\ line[w] \in HeaderWords
                /\ c <= Len(line) /\ line[c] = "]"
             THEN line[w]
             ELSE ""
    ELSE ""

\* _calculate_section_positions: the index of the last line matching each
\* header (1-based here; 0 when the name is not a key of the dict).
SectionPositions(ls) ==
    [w \in HeaderWords |->
        LET at == {i \in 1..Len(ls) : HeaderPrefixMatch(Strip(ls[i])) = w}
        IN  IF at = {} THEN 0 ELSE CHOOSE i \in at : \A j \in at : j <= i]

\* _extract_section: from the line after the header to the first recorded
\* header position that is greater than start_line (or the end of the text).
\* With 0-based pos, start_line = pos + 1 and the test is pos' > start_line.
ExtractSection(ls, pos, w) ==
    IF pos[w] = 0 THEN <<>>
    ELSE LET later == {pos[u] : u \in HeaderWords} \cap ((pos[w] + 2)..Len(ls))
             stop  == IF later = {} THEN Len(ls) + 1
                      ELSE CHOOSE e \in later : \A f \in later : e <= f
         IN  Slice(ls, pos[w] + 1, stop - 1)

\* PromptValidator.__init__(text=...): lines, _section_positions, sections.
ValidatorInit(ls) ==
    LET pos == SectionPositions(ls)
    IN  [lines     |-> ls,
         positions |-> pos,
         sections  |-> [w \in HeaderWords |-> ExtractSection(ls, pos, w)]]

\* _is_comment_line
IsCommentLine(line) == IsFullLineComment(Strip(line))

\* The end of the key \w[\w\-_]{0,63} that follows the '@' of a stripped
\* line, 0 when the second character is no \w.  (Keys of the model are
\* shorter than 64 characters.)
KeyEnd(line) ==
    IF Len(line) >= 2 /\ line[1] = "@" /\ IsWord(line[2])
    THEN CHOOSE i \in 2..Len(line) :
             /\ \A m \in 2..i : IsWord(line[m]) \/ line[m] = "-"
             /\ (i = Len(line) \/ ~(IsWord(line[i + 1]) \/ line[i + 1] = "-"))
    ELSE 0

\* FIELD_PATTERN.match: ^@(\w[\w\-_]{0,63})\s+(.+)$ on a stripped line.
FieldPatternMatch(line) ==
    LET e == KeyEnd(line)
    IN  e # 0 /\ e < Len(line) /\ IsSpace(line[e + 1])

\* MULTILINE_PATTERN.match: ^@(\w[\w\-_]{0,63})\s+>$ on a stripped line.
MultilinePatternMatch(line) ==
    LET e == KeyEnd(line)
    IN  /\ e # 0 /\ e < Len(line) - 1
        /\ line[Len(line)] = ">"
        /\ \A m \in (e + 1)..(Len(line) - 1) : IsSpace(line[m])

\* _process_line: (field_name, is_multiline); name <<>> stands for None.
ProcessLine(raw) ==
    LET line == Strip(raw)
    IN  IF line = <<>> \/ IsCommentLine(line)
        THEN [name |-> <<>>, multi |-> FALSE]
        ELSE IF FieldPatternMatch(line)
        THEN [name |-> Slice(line, 2, KeyEnd(line)), multi |-> FALSE]
        ELSE IF MultilinePatternMatch(line)
        THEN [name |-> Slice(line, 2, KeyEnd(line)), multi |-> TRUE]
        ELSE [name |-> <<>>, multi |-> FALSE]

\* A warning of the report.
Warning(kind, sec, text, names) ==
    [kind |-> kind, sec |-> sec, text |-> text, names |-> names]

\* A variant of the error bookkeeping that forgets result["valid"] = False.
AddErrorKeepingValid(r, e) == [r EXCEPT !.errors = Append(@, e)]

\* self.result["valid"] = False; self.result["errors"].append(e)
AddError(r, e) == [r EXCEPT !.valid = FALSE, !.errors = Append(@, e)]

\* self.result["warnings"].append(w)
AddWarning(r, w) == [r EXCEPT !.warnings = Append(@, w)]

\* _validate_sections_presence
ValidateSectionsPresence(self, r) ==
    LET pos == self.positions
        r1  == IF pos["METADATA"] = 0 THEN AddError(r, "missing_metadata") ELSE r
    IN  IF pos["CONTENT"] = 0 THEN AddError(r1, "missing_content") ELSE r1

\* A variant of _validate_sections_order that checks DEFAULTS against
\* CONTENT only, as the parser does.
ValidateSectionsOrderContentOnly(self, r) ==
    LET pos == self.positions
    IN  IF /\ pos["DEFAULTS"] # 0 /\ pos["CONTENT"] # 0
           /\ pos["DEFAULTS"] > pos["CONTENT"]
        THEN [r EXCEPT !.valid = FALSE,
                       !.errors = Append(@, "order_defaults_content")]
        ELSE r

\* _validate_sections_order
ValidateSectionsOrder(self, r) ==
    LET pos == self.positions
        r1  == IF /\ pos["METADATA"] # 0 /\ pos["CONTENT"] # 0
                  /\ pos["METADATA"] > pos["CONTENT"]
               THEN AddError(r, "order_metadata_content") ELSE r
        r2  == IF /\ pos["DEFAULTS"] # 0 /\ pos["METADATA"] # 0
                  /\ pos["DEFAULTS"] < pos["METADATA"]
               THEN AddError(r1, "order_defaults_metadata") ELSE r1
    IN  IF /\ pos["DEFAULTS"] # 0 /\ pos["CONTENT"] # 0
           /\ pos["DEFAULTS"] > pos["CONTENT"]
        THEN AddError(r2, "order_defaults_content") ELSE r2

\* The loop shared by _validate_metadata and _validate_defaults, from line
\* i on: st = [r, cur, fv] with cur the open multiline field (<<>>: None)
\* and fv the flag format_version_found.
RECURSIVE FieldLoop(_, _, _, _)
FieldLoop(sect, name, i, st) ==
    IF i > Len(sect) THEN st
    ELSE LET f == ProcessLine(sect[i])
         IN  FieldLoop(sect, name, i + 1,
                 IF f.name # <<>>
                 THEN [st EXCEPT !.fv  = @ \/ f.name = <<"format_version">>,
                                 !.cur = IF f.multi THEN f.name ELSE <<>>]
                 ELSE IF /\ st.cur = <<>>
                         /\ Strip(sect[i]) # <<>>
                         /\ ~IsCommentLine(sect[i])
                 THEN [st EXCEPT !.r = AddWarning(@,
                          Warning("invalid_line", name, sect[i], <<>>))]
                 ELSE st)

\* _validate_metadata
ValidateMetadata(self, r) ==
    LET sect == self.sections["METADATA"]
    IN  IF sect = <<>> THEN r
        ELSE LET st == FieldLoop(sect, "METADATA", 1,
                                 [r |-> r, cur |-> <<>>, fv |-> FALSE])
             IN  IF ~st.fv THEN AddError(st.r, "missing_format_version")
                 ELSE st.r

\* _validate_defaults
ValidateDefaults(self, r) ==
    LET sect == self.sections["DEFAULTS"]
    IN  IF sect = <<>> THEN r
        ELSE FieldLoop(sect, "DEFAULTS", 1,
                       [r |-> r, cur |-> <<>>, fv |-> FALSE]).r

\* The index of the first "%)" at or after from that no newline precedes
\* (counted from from), 0 when there is none: where \(%.*?%\) ends.
CloseComment(s, from) ==
    LET ok == {j \in from..(Len(s) - 1) :
                  /\ s[j] = "%" /\ s[j + 1] = ")"
                  /\ \A m \in from..(j - 1) : s[m] # NL}
    IN  IF ok = {} THEN 0 ELSE CHOOSE j \in ok : \A m \in ok : j <= m

\* re.sub(r'\(%.*?%\)', '', s), without DOTALL.
RECURSIVE StripInlineComments(_)
StripInlineComments(s) ==
    IF s = <<>> THEN <<>>
    ELSE LET j == CloseComment(s, 3)
         IN  IF Len(s) >= 4 /\ s[1] = "(" /\ s[2] = "%" /\ j # 0
             THEN StripInlineComments(Slice(s, j + 2, Len(s)))
             ELSE <<s[1]>> \o StripInlineComments(Tail(s))

\* unbalanced_pattern.search: \(%[^%]*$ or ^[^(]*%\)
Unbalanced(s) ==
    \/ \E i \in 1..(Len(s) - 1) :
          /\ s[i] = "(" /\ s[i + 1] = "%"
          /\ \A m \in (i + 2)..Len(s) : s[m] # "%"
    \/ \E j \in 1..(Len(s) - 1) :
          /\ s[j] = "%" /\ s[j + 1] = ")"
          /\ \A m \in 1..(j - 1) : s[m] # "("

\* _validate_content
ValidateContent(self, r) ==
    LET sect == self.sections["CONTENT"]
    IN  IF sect = <<>> THEN r
        ELSE LET r1 == IF Strip(Join(sect, <<>>)) = <<>>
                       THEN AddError(r, "empty_content") ELSE r
             IN  IF Unbalanced(StripInlineComments(Join(sect, <<NL>>)))
                 THEN AddWarning(r1, Warning("unbalanced_comment", "CONTENT", <<>>, <<>>))
                 ELSE r1

\* A variant that looks for variables inside the comments as well.
ValidatorVariablesInComments(self) ==
    FindVars(Join(self.sections["CONTENT"], <<NL>>))

\* The variables _validate_variables finds in the CONTENT section.
ValidatorVariables(self) ==
    FindVars(StripInlineComments(Join(self.sections["CONTENT"], <<NL>>)))

\* defined_vars of _validate_variables.
DefinedVars(self) ==
    LET sect == self.sections["DEFAULTS"]
    IN  {ProcessLine(sect[i]).name : i \in 1..Len(sect)} \ {<<>>}

\* _validate_variables
ValidateVariables(self, r) ==
    IF self.sections["CONTENT"] = <<>> THEN r
    ELSE LET variables == ValidatorVariables(self)
         IN  IF self.sections["DEFAULTS"] = <<>>
             THEN IF variables # {}
                  THEN AddWarning(r, Warning("no_defaults_section", "DEFAULTS",
                                             <<>>, SortedSeq(variables)))
                  ELSE r
             ELSE LET defined   == DefinedVars(self)
                      undefined == variables \ defined
                      unused    == defined \ variables
                      r1 == IF undefined # {}
                            THEN AddWarning(r, Warning("undefined_vars", "DEFAULTS",
                                                       <<>>, SortedSeq(undefined)))
                            ELSE r
                  IN  IF unused # {}
                      THEN AddWarning(r1, Warning("unused_vars", "DEFAULTS",
                                                  <<>>, SortedSeq(unused)))
                      ELSE r1

NewReport == [valid |-> TRUE, errors |-> <<>>, warnings |-> <<>>]

\* PromptValidator.validate on the validator object: the six checks in order.
ValidateSelf(self) ==
    LET r1 == ValidateSectionsPresence(self, NewReport)
        r2 == ValidateSectionsOrder(self, r1)
        r3 == ValidateMetadata(self, r2)
        r4 == ValidateDefaults(self, r3)
        r5 == ValidateContent(self, r4)
    IN  ValidateVariables(self, r5)

\* A variant of the constructor that refuses a blank text, as the parser does.
PromptValidatorNewRejectingBlank(given, ls) ==
    IF ~given \/ TextIsBlank(ls)
    THEN [ok |-> FALSE, err |-> "no_input", self |-> ValidatorInit(<< >>)]
    ELSE [ok |-> TRUE, err |-> "none", self |-> ValidatorInit(ls)]

\* PromptValidator(text, filepath=None), text being given or left None: the
\* ValueError raised when neither is provided, else the validator object.
\* (No file is read in the model: filepath is always None.)
PromptValidatorNew(given, ls) ==
    IF ~given
    THEN [ok |-> FALSE, err |-> "no_input", self |-> ValidatorInit(<< >>)]
    ELSE [ok |-> TRUE, err |-> "none", self |-> ValidatorInit(ls)]

----------------------------------------------------------------------------
(* The state machine: a text is typed (or composed), then parsed and        *)
(* validated; a parsed document is serialised again, or processed.          *)

Header(w) == <<"[", w, "]">>

\* The lines a text is typed from.
TypedLines ==
    { Header("METADATA"), Header("DEFAULTS"), Header("CONTENT"),
      <<"@", "format_version", " ", "1">>,
      <<"@", "a", " ", "d">>,
      <<"x", " ", "{", "a", "}">>,
      <<"(", "%", "c", "%", ")">> }

\* The bodies well-formed texts are composed from: METADATA sections, ...
MetadataBodies ==
    { << <<"@", "format_version", " ", "1">> >>,
      << <<"@", "format_version", " ", "1">>, <<"@", "a", " ", "d">> >>,
      << <<"@", "format_version", " ", ">">>, <<" ", " ", "1">> >>,
      << <<"@", "format_version", " ", "1">>, <<"@", "d", " ", ">">>,
         <<" ", " ", "x">>, <<" ", " ", "x", " ", "b">> >>,
      << <<"@", "format_version", " ", "1">>, <<"@", "d", " ", ">">> >>,
      << <<"@", "format_version", " ", "1">>, <<"@", "a", " ", "x", ">", "d">> >>,
      << <<"@", "format_version", " ", "1">>, <<"@", "d", " ", ">">>,
         <<"#", " ", "c">>, <<"x">> >>,
      << <<"#", " ", "c">>, <<"@", "format_version", " ", "1">>, <<"x">> >> }

\* ... DEFAULTS sections (<<"-">> stands for: no [DEFAULTS] header), ...
NoSection == << <<"-">> >>
DefaultsBodies ==
    { NoSection,
      << >>,
      << <<"@", "a", " ", "d">> >>,
      << <<"@", "a">> >>,
      << <<"@", "a", " ", ">">>, <<" ", " ", "x">>, <<" ", " ", "x">> >>,
      << <<"@", "a", " ", "d">>, <<"@", "b", " ", "1">> >> }

\* ... and CONTENT sections.
ContentBodies ==
    { << <<"x", " ", "{", "a", "}">> >>,
      << <<"x">>, <<"(", "%", "c", "%", ")">>, <<"{", "{", "b", "}", "}">> >>,
      << <<"x", " ", "(", "%", "c", "%", ")">> >>,
      << <<"x", " ", "(", "%", "c", "%", ")", " ", "(", "%", "c", "%", ")">> >>,
      << <<"x", " ", "(", "%", "c", "%", ")", " ", "d">> >>,
      << <<"(", "%", "c", "%", ")">> >> }

ComposedTexts ==
    { <<Header("METADATA")>> \o m
      \o (IF d = NoSection THEN << >> ELSE <<Header("DEFAULTS")>> \o d)
      \o <<Header("CONTENT")>> \o c :
        m \in MetadataBodies, d \in DefaultsBodies, c \in ContentBodies }

\* The sections texts are assembled from, in any order and number: header
\* and body.  METADATA with and without format_version, DEFAULTS, and
\* CONTENT with placeholders, with a comment holding a '%', blank, and empty.
SectionChoices ==
    { << Header("METADATA"), <<"@", "format_version", " ", "1">> >>,
      << Header("METADATA"), <<"@", "format_version", " ", "1">>,
         <<"#", " ", "c">> >>,
      << Header("METADATA") >>,
      << Header("DEFAULTS"), <<"@", "a", " ", "d">> >>,
      << Header("CONTENT"), <<"x", " ", "{", "b", "}", " ", "{", "a", "}">> >>,
      << Header("CONTENT"),
         <<"(", "%", "%", "{", "a", "}", "%", ")", " ", "{", "{", "b", "}", "}">> >>,
      << Header("CONTENT"), << >>, <<" ", " ">> >>,
      << Header("CONTENT") >> }

RECURSIVE AssembledFrom(_)
AssembledFrom(n) ==
    IF n = 0 THEN { << >> }
    ELSE LET shorter == AssembledFrom(n - 1)
         IN  shorter \cup { t \o sec : t \in shorter, sec \in SectionChoices }

\* How many sections a text with repeated headers has at most.
MaxRepeated == 4

\* The sections such a text is made of, each any number of times.
RepeatedChoices ==
    { << Header("METADATA"), <<"@", "format_version", " ", "1">> >>,
      << Header("DEFAULTS"), <<"@", "a", " ", "d">> >>,
      << Header("CONTENT"), <<"x", " ", "{", "a", "}">> >> }

RepeatedTexts ==
    UNION { { Join(f, << >>) : f \in [1..n -> RepeatedChoices] } :
            n \in 0..MaxRepeated }

\* The lines the body of a METADATA or DEFAULTS section is made of: a
\* multiline opener, a plain line, a '#' comment, a single-line field, a
\* field whose value holds a '>', one whose value follows a tab, one
\* without a value, and an indented plain line.
FieldLines ==
    { <<"@", "a", " ", ">">>,
      <<"x">>,
      <<" ", "y">>,
      <<"#", " ", "c">>,
      <<"@", "b", " ", "d">>,
      <<"@", "d", " ", "a", " ", ">", " ", "b">>,
      <<"@", "c", TAB, "1">>,
      <<"@", "d">> }

RECURSIVE FieldBodies(_)
FieldBodies(n) ==
    IF n = 0 THEN { << >> }
    ELSE LET shorter == FieldBodies(n - 1)
         IN  shorter \cup { b \o <<l>> : b \in shorter, l \in FieldLines }

\* Texts whose METADATA or DEFAULTS section ends with such a body.
FieldTexts ==
    { <<Header("METADATA"), <<"@", "format_version", " ", "1">>>> \o pre \o b
      \o <<Header("CONTENT"), <<"x">>>> :
        pre \in { << >>, <<Header("DEFAULTS")>> },
        b \in FieldBodies(MaxFieldLines) }

\* The documents process() is called on, as PromptObject(...) builds them.
VersionOnly == << [k |-> <<"format_version">>, v |-> <<"1">>] >>

ProcessContents ==
    { <<"x", " ", "{", "a", "}", " ", "{", "b", "}">>,
      <<"{", "{", "a", "}", "}", " ", "{", "a", "}">>,
      <<"x", " ", "(", "%", "{", "b", "}", "%", ")", " ", "{", "a", "}">>,
      <<"(", "%", "c", "%", " ", "{", "b", "}", "%", ")", " ", "{", "a", "}">>,
      <<"x">> }

ProcessDefaults ==
    { << >>,
      << [k |-> <<"a">>, v |-> <<"d">>] >>,
      << [k |-> <<"a">>, v |-> <<"d">>], [k |-> <<"b">>, v |-> <<"1">>] >>,
      << [k |-> <<"c">>, v |-> <<"d">>] >>,
      << [k |-> <<"a">>, v |-> NoneVal] >> }

\* The keyword arguments: names in sorted order, each with a string or None.
RECURSIVE KwargsFrom(_)
KwargsFrom(i) ==
    LET names == << <<"a">>, <<"b">>, <<"c">> >>
    IN  IF i > Len(names) THEN { << >> }
        ELSE LET rest == KwargsFrom(i + 1)
             IN  rest \cup { <<[k |-> names[i], v |-> val]>> \o r :
                               val \in { <<"1">>, NoneVal }, r \in rest }

HasDoc == doc # NoDoc

\* The holders of dicts: the caller's own variables, the document, another
\* document, and the builder.  Each holds the address of a metadata dict,
\* the address of a defaults dict (0: nothing held) and a content string.
NoRefs ==
    [h \in {"caller", "doc", "other", "builder"} |->
        [m |-> 0, d |-> 0, c |-> NoneVal]]

Idle ==
    /\ pc = "edit" /\ done = {} /\ doc = NoDoc /\ err = "none" /\ errline = 0
    /\ report = NewReport /\ verr = "none" /\ doc0 = NoDoc /\ round = 0
    /\ kwargs = << >> /\ perr = "none" /\ errkeys = << >> /\ out = << >>
    /\ warned = << >>
    /\ builder = NoBuilder /\ json = JNull /\ jerr = "none"
    /\ heap = << >> /\ refs = NoRefs

\* A text about to be typed.
Init == lines = << >> /\ Idle

\* A text composed of a METADATA, an optional DEFAULTS and a CONTENT section.
InitComposed == lines \in ComposedTexts /\ Idle

\* A text assembled from whole sections, or one with repeated headers.
InitSections == lines \in (AssembledFrom(MaxSections) \cup RepeatedTexts) /\ Idle

\* A text with a section body of field lines.
InitFields == lines \in FieldTexts /\ Idle

\* A document built in memory.
InitDocs ==
    /\ lines = << >> /\ pc = "doc" /\ done = {} 
    /\ doc \in { [metadata |-> VersionOnly, defaults |-> d, content |-> c] :
                    d \in ProcessDefaults, c \in ProcessContents }
    /\ err = "none" /\ errline = 0 /\ report = NewReport /\ verr = "none"
    /\ doc0 = NoDoc
    /\ round = 0 /\ kwargs = << >> /\ perr = "none" /\ errkeys = << >>
    /\ out = << >> /\ warned = << >>
    /\ builder = NoBuilder /\ json = JNull /\ jerr = "none"
    /\ heap = << >> /\ refs = NoRefs

\* One more line of the text, while nothing has been run on it.
TypeLine ==
    /\ pc = "edit" /\ Len(lines) < MaxLines
    /\ \E l \in TypedLines : lines' = Append(lines, l)
    /\ UNCHANGED <<pc, done, doc, err, errline, report, verr, doc0, round,
                   kwargs, perr, errkeys, out, warned>>
    /\ UNCHANGED jsonVars /\ UNCHANGED heapVars

\* PromptParser(text).obj
DoParse ==
    /\ pc \in {"edit", "validate", "to_text"} /\ "parse" \notin done
    /\ \E p \in {Parse(lines)} :
          doc' = p.doc /\ err' = p.err /\ errline' = p.errline
    /\ pc' = "parse" /\ done' = done \cup {"parse"}
    /\ UNCHANGED <<lines, report, verr, doc0, round, kwargs, perr, errkeys,
                   out, warned>>
    /\ UNCHANGED jsonVars /\ UNCHANGED heapVars

\* PromptValidator(text=text).validate(), or PromptValidator().validate():
\* the constructor's ValueError, or the report of validate().
DoValidate ==
    /\ pc \in {"edit", "parse", "to_text"} /\ "validate" \notin done
    /\ \E given \in (IF pc = "edit" THEN BOOLEAN ELSE {TRUE}) :
       \E v \in {PromptValidatorNew(given, lines)} :
          /\ verr' = v.err
          /\ report' = IF v.ok THEN ValidateSelf(v.self) ELSE report
          /\ done' = IF v.ok THEN done \cup {"validate"} ELSE done
          /\ pc' = IF given THEN "validate" ELSE "validate_none"
    /\ UNCHANGED <<lines, doc, err, errline, doc0, round, kwargs, perr,
                   errkeys, out, warned>>
    /\ UNCHANGED jsonVars /\ UNCHANGED heapVars

\* text = doc.to_text(): the serialised document becomes the text at hand.
DoToText ==
    /\ pc \in {"parse", "validate"} /\ HasDoc /\ round < MaxRounds
    /\ lines' = SplitLines(ToText(doc))
    /\ doc0' = doc /\ round' = round + 1
    /\ pc' = "to_text" /\ done' = {}
    /\ UNCHANGED <<doc, err, errline, report, verr, kwargs, perr, errkeys,
                   out, warned>>
    /\ UNCHANGED jsonVars /\ UNCHANGED heapVars

\* doc.process(**kw)
DoProcess ==
    /\ pc \in {"parse", "doc"} /\ HasDoc
    /\ \E kw \in { k \in KwargsFrom(1) : Len(k) <= MaxKwargs } :
       \E p \in {Process(doc, kw)} :
              /\ kwargs' = kw
              /\ perr' = IF p.ok THEN "none" ELSE "unknown_var"
              /\ errkeys' = p.errkeys
              /\ out' = p.out
              /\ warned' = p.warned
              /\ doc' = p.doc
    /\ pc' = "process"
    /\ UNCHANGED <<lines, done, err, errline, report, verr, doc0, round>>
    /\ UNCHANGED jsonVars /\ UNCHANGED heapVars

\* The arguments of the builder's and the document's operations.
Arguments ==
    [ metaKeys |-> { <<"format_version">>, <<"d">> },
      metaValues |-> { <<"1">>, << >> },
      metadataUpdates |->
          { << [k |-> <<"d">>, v |-> <<"1">>] >>,
            << [k |-> <<"format_version">>, v |-> << >>],
               [k |-> <<"d">>, v |-> <<"1">>] >> },
      metadataKeyLists |-> { << <<"d">> >>, << <<"format_version">>, <<"d">> >> },
      defaultKeys |-> { <<"a">> },
      defaultValues |-> { <<"d">> },
      defaultsUpdates |-> { << [k |-> <<"a">>, v |-> <<"d">>] >> },
      defaultKeyLists |-> { << <<"a">> >> },
      newContents |->
          { <<"x">>, <<" ", "x", " ", "{", "a", "}", NL>>, <<" ", NL>> } ]

\* A text to parse, or none and a builder to come.
InitMutate ==
    /\ lines \in
          { << >>,
            << Header("METADATA"), <<"@", "format_version", " ", "1">>,
               Header("CONTENT"), <<"x", " ", "{", "a", "}">> >>,
            << Header("METADATA"), <<"@", "format_version", " ", "1">>,
               <<"@", "d", " ", "1">>, Header("DEFAULTS"), <<"@", "a", " ", "d">>,
               Header("CONTENT"), <<"x">> >> }
    /\ Idle

\* builder = PromptBuilder()
DoBuilderNew ==
    /\ pc = "edit" /\ lines = << >>
    /\ builder' = BuilderNew /\ pc' = "builder"
    /\ UNCHANGED <<doc, doc0, json, jerr>> /\ UNCHANGED textVars /\ UNCHANGED heapVars
    /\ UNCHANGED procVars

\* builder.metadata(key, value)
DoBuilderMetadata ==
    /\ pc = "builder"
    /\ \E key \in Arguments.metaKeys, value \in Arguments.metaValues :
          builder' = BuilderMetadata(builder, key, value)
    /\ UNCHANGED <<pc, doc, doc0, json, jerr>> /\ UNCHANGED textVars /\ UNCHANGED heapVars
    /\ UNCHANGED procVars

\* builder.metadata(dict)
DoBuilderMetadataDict ==
    /\ pc = "builder"
    /\ \E u \in Arguments.metadataUpdates : builder' = BuilderMetadataDict(builder, u)
    /\ UNCHANGED <<pc, doc, doc0, json, jerr>> /\ UNCHANGED textVars /\ UNCHANGED heapVars
    /\ UNCHANGED procVars

\* builder.defaults(key, value)
DoBuilderDefaults ==
    /\ pc = "builder"
    /\ \E key \in Arguments.defaultKeys, value \in Arguments.defaultValues :
          builder' = BuilderDefaults(builder, key, value)
    /\ UNCHANGED <<pc, doc, doc0, json, jerr>> /\ UNCHANGED textVars /\ UNCHANGED heapVars
    /\ UNCHANGED procVars

\* builder.defaults(dict)
DoBuilderDefaultsDict ==
    /\ pc = "builder"
    /\ \E u \in Arguments.defaultsUpdates : builder' = BuilderDefaultsDict(builder, u)
    /\ UNCHANGED <<pc, doc, doc0, json, jerr>> /\ UNCHANGED textVars /\ UNCHANGED heapVars
    /\ UNCHANGED procVars

\* builder.content(text)
DoBuilderContent ==
    /\ pc = "builder"
    /\ \E text \in Arguments.newContents : builder' = BuilderContent(builder, text)
    /\ UNCHANGED <<pc, doc, doc0, json, jerr>> /\ UNCHANGED textVars /\ UNCHANGED heapVars
    /\ UNCHANGED procVars

\* doc = builder.build()
DoBuild ==
    /\ pc \in {"builder", "to_builder"}
    /\ \E b \in {Build(builder)} :
          /\ doc' = IF b.ok THEN b.doc ELSE doc
          /\ pc' = IF ~b.ok THEN "build_failed"
                   ELSE IF pc = "to_builder" THEN "rebuilt" ELSE "built"
    /\ UNCHANGED <<doc0, builder, json, jerr>> /\ UNCHANGED textVars /\ UNCHANGED heapVars
    /\ UNCHANGED procVars

\* A document is at hand for its mutators and for to_json().
DocAtHand == pc \in {"parse", "built", "rebuilt", "mutated"} /\ HasDoc

\* What a mutator leaves alone.
Mutated ==
    /\ pc' = "mutated"
    /\ UNCHANGED <<doc0, builder, json, jerr>> /\ UNCHANGED textVars /\ UNCHANGED heapVars
    /\ UNCHANGED procVars

DoAddMetadata ==
    /\ DocAtHand
    /\ \E key \in Arguments.metaKeys, value \in Arguments.metaValues :
          doc' = AddMetadata(doc, key, value)
    /\ Mutated

DoRemoveMetadata ==
    /\ DocAtHand
    /\ \E key \in Arguments.metaKeys : doc' = RemoveMetadata(doc, key)
    /\ Mutated

DoUpdateMetadata ==
    /\ DocAtHand
    /\ \E u \in Arguments.metadataUpdates : doc' = UpdateMetadata(doc, u)
    /\ Mutated

DoRemoveMetadataKeys ==
    /\ DocAtHand
    /\ \E keys \in Arguments.metadataKeyLists : doc' = RemoveMetadataKeys(doc, keys)
    /\ Mutated

DoAddDefault ==
    /\ DocAtHand
    /\ \E key \in Arguments.defaultKeys, value \in Arguments.defaultValues :
          doc' = AddDefault(doc, key, value)
    /\ Mutated

DoRemoveDefault ==
    /\ DocAtHand
    /\ \E key \in Arguments.defaultKeys : doc' = RemoveDefault(doc, key)
    /\ Mutated

DoUpdateDefaults ==
    /\ DocAtHand
    /\ \E u \in Arguments.defaultsUpdates : doc' = UpdateDefaults(doc, u)
    /\ Mutated

DoRemoveDefaultKeys ==
    /\ DocAtHand
    /\ \E keys \in Arguments.defaultKeyLists : doc' = RemoveDefaultKeys(doc, keys)
    /\ Mutated

DoUpdateContent ==
    /\ DocAtHand
    /\ \E new \in Arguments.newContents : doc' = UpdateContent(doc, new)
    /\ Mutated

\* builder = doc.to_builder()
DoToBuilder ==
    /\ DocAtHand
    /\ builder' = ToBuilder(doc) /\ doc0' = doc /\ pc' = "to_builder"
    /\ UNCHANGED <<doc, json, jerr>> /\ UNCHANGED textVars /\ UNCHANGED heapVars
    /\ UNCHANGED procVars

\* json_str = doc.to_json()
DoToJson ==
    /\ DocAtHand
    /\ json' = ToJson(doc) /\ doc0' = doc /\ pc' = "to_json"
    /\ UNCHANGED <<doc, builder, jerr>> /\ UNCHANGED textVars /\ UNCHANGED heapVars
    /\ UNCHANGED procVars

\* doc = PromptObject.from_json(json_str)
DoFromJson ==
    /\ pc = "to_json"
    /\ \E r \in {FromJson(json)} : doc' = r.doc /\ jerr' = r.err
    /\ pc' = "from_json"
    /\ UNCHANGED <<doc0, builder, json>> /\ UNCHANGED textVars /\ UNCHANGED heapVars
    /\ UNCHANGED procVars

\* How many dicts the heap may hold.
MaxObjects == 6

\* The holder holds dicts.
Held(h) == refs[h].m # 0

\* What a holder reads through its references.
View(h) ==
    [metadata |-> heap[refs[h].m], defaults |-> heap[refs[h].d],
     content |-> refs[h].c]

\* PromptObject(metadata, defaults, content): the object keeps the very
\* dicts it is given.
PromptObjectNew(metadata, defaults, content) ==
    [m |-> metadata, d |-> defaults, c |-> content]

\* The references to two dicts put on the heap next.
NewPair(content) == [m |-> Len(heap) + 1, d |-> Len(heap) + 2, c |-> content]

\* The caller with a metadata and a defaults mapping of its own.
InitShared ==
    /\ lines = << >> /\ pc = "edit" /\ done = {} /\ doc = NoDoc
    /\ err = "none" /\ errline = 0 /\ report = NewReport /\ verr = "none"
    /\ doc0 = NoDoc /\ round = 0 /\ kwargs = << >> /\ perr = "none"
    /\ errkeys = << >> /\ out = << >> /\ warned = << >>
    /\ builder = NoBuilder /\ json = JNull /\ jerr = "none"
    /\ heap = <<VersionOnly, << [k |-> <<"a">>, v |-> <<"d">>] >> >>
    /\ refs = [NoRefs EXCEPT !["caller"] =
                  [m |-> 1, d |-> 2, c |-> <<"x", " ", "{", "a", "}">>]]

\* The document and the builder as they read after a step; doc0 follows the
\* document when the step assigned it or was an operation of its own.
Reads(own) ==
    /\ doc' = IF Held("doc")' THEN View("doc")' ELSE NoDoc
    /\ builder' = IF Held("builder")' THEN View("builder")' ELSE NoBuilder
    /\ doc0' = IF own THEN doc' ELSE doc0
    /\ UNCHANGED <<lines, done, err, errline, report, verr, round>>
    /\ UNCHANGED procVars

\* target = PromptObject(metadata, defaults, content) on the caller's mappings
DoNewObject ==
    /\ Held("caller")
    /\ \E t \in {"doc", "other"} :
          /\ ~Held(t)
          /\ refs' = [refs EXCEPT ![t] =
                         PromptObjectNew(refs["caller"].m, refs["caller"].d,
                                         refs["caller"].c)]
          /\ heap' = heap /\ pc' = "object"
          /\ Reads(t = "doc")
    /\ UNCHANGED <<json, jerr>>

\* builder = source.to_builder(): a new builder with new dicts
DoSharedToBuilder ==
    /\ Len(heap) + 2 <= MaxObjects
    /\ \E src \in {"doc", "other"} :
          /\ Held(src)
          /\ \E tb \in {ToBuilder(View(src))} :
                /\ heap' = heap \o <<tb.metadata, tb.defaults>>
                /\ refs' = [refs EXCEPT !["builder"] = NewPair(tb.content)]
    /\ pc' = "shared_to_builder" /\ Reads(FALSE)
    /\ UNCHANGED <<json, jerr>>

\* target = builder.build(): copies of the builder's dicts
DoSharedBuild ==
    /\ Len(heap) + 2 <= MaxObjects /\ Held("builder")
    /\ \E t \in {"doc", "other"} : \E b \in {Build(View("builder"))} :
          /\ heap' = IF b.ok THEN heap \o <<b.doc.metadata, b.doc.defaults>>
                     ELSE heap
          /\ refs' = IF b.ok THEN [refs EXCEPT ![t] = NewPair(b.doc.content)]
                     ELSE refs
          /\ pc' = IF b.ok THEN "shared_build" ELSE "build_failed"
          /\ Reads(b.ok /\ t = "doc")
    /\ UNCHANGED <<json, jerr>>

\* target = PromptObject.from_json(source.to_json()): the dicts json.loads
\* made
DoSharedFromJson ==
    /\ Len(heap) + 2 <= MaxObjects
    /\ \E src, t \in {"doc", "other"} :
          /\ Held(src) /\ src # t
          /\ json' = ToJson(View(src))
          /\ \E r \in {FromJson(json')} :
                /\ jerr' = r.err
                /\ heap' = IF r.ok THEN heap \o <<r.doc.metadata, r.doc.defaults>>
                           ELSE heap
                /\ refs' = IF r.ok THEN [refs EXCEPT ![t] = NewPair(r.doc.content)]
                           ELSE refs
                /\ Reads(r.ok /\ t = "doc")
    /\ pc' = "shared_from_json"

\* The heap after the holder's metadata dict got d = "x", or its defaults
\* dict b = "x".
Written(h, which) ==
    IF which = "metadata"
    THEN [heap EXCEPT ![refs[h].m] = DictSet(@, <<"d">>, <<"x">>)]
    ELSE [heap EXCEPT ![refs[h].d] = DictSet(@, <<"b">>, <<"x">>)]

\* metadata[key] = value, defaults[key] = value: the caller writes to a
\* mapping of its own
DoCallerSets ==
    /\ Held("caller")
    /\ \E which \in {"metadata", "defaults"} : heap' = Written("caller", which)
    /\ refs' = refs /\ pc' = "caller_sets" /\ Reads(FALSE)
    /\ UNCHANGED <<json, jerr>>

\* builder.metadata(key, value), builder.defaults(key, value)
DoBuilderSets ==
    /\ Held("builder")
    /\ \E which \in {"metadata", "defaults"} : heap' = Written("builder", which)
    /\ refs' = refs /\ pc' = "builder_sets" /\ Reads(FALSE)
    /\ UNCHANGED <<json, jerr>>

\* add_metadata(key, value), add_default(key, value) of the document or of
\* the other one
DoObjectSets ==
    /\ \E h \in {"doc", "other"} :
          /\ Held(h)
          /\ \E which \in {"metadata", "defaults"} : heap' = Written(h, which)
          /\ pc' = IF h = "doc" THEN "own_sets" ELSE "other_sets"
          /\ refs' = refs /\ Reads(h = "doc")
    /\ UNCHANGED <<json, jerr>>

Next == TypeLine \/ DoParse \/ DoValidate \/ DoToText \/ DoProcess

NextComposed == DoParse \/ DoValidate \/ DoToText

NextDocs == DoProcess

NextSections == DoParse \/ DoValidate

NextMutate ==
    \/ DoParse \/ DoBuilderNew \/ DoBuilderMetadata \/ DoBuilderMetadataDict
    \/ DoBuilderDefaults \/ DoBuilderDefaultsDict \/ DoBuilderContent \/ DoBuild
    \/ DoAddMetadata \/ DoRemoveMetadata \/ DoUpdateMetadata
    \/ DoRemoveMetadataKeys \/ DoAddDefault \/ DoRemoveDefault
    \/ DoUpdateDefaults \/ DoRemoveDefaultKeys \/ DoUpdateContent
    \/ DoToJson \/ DoFromJson \/ DoToBuilder

NextShared ==
    \/ DoNewObject \/ DoSharedToBuilder \/ DoSharedBuild \/ DoSharedFromJson
    \/ DoCallerSets \/ DoBuilderSets \/ DoObjectSets

\* Texts typed line by line, and everything done with them.
Spec == Init /\ [][Next]_vars

\* Composed texts: parsing, validation and the to_text() round trip.
SpecComposed == InitComposed /\ [][NextComposed]_vars

\* Documents in memory: process().
SpecDocs == InitDocs /\ [][NextDocs]_vars

\* Texts assembled from sections in any order: parsing and validation.
SpecSections == InitSections /\ [][NextSections]_vars

\* Texts with a body of field lines: parsing and validation.
SpecFields == InitFields /\ [][NextSections]_vars

\* Documents parsed or built, then mutated and written to JSON and back.
SpecMutate == InitMutate /\ [][NextMutate]_vars

\* Documents, a builder and the caller's mappings on one heap.
SpecShared == InitShared /\ [][NextShared]_vars

----------------------------------------------------------------------------
(* Notions the properties are stated with *)

\* The header word of line i of the text as the parser reads it, "" if none.
ParserHeaderAt(i) == HeaderFullMatch(Strip(lines[i]))

\* A header of section late stands after a header of section early.
HeaderAfter(late, early) ==
    \E i, j \in 1..Len(lines) :
        i < j /\ ParserHeaderAt(i) = early /\ ParserHeaderAt(j) = late

\* The section line i of the text lies in: the word of the nearest header
\* line above it, "" before the first header.
RECURSIVE SectionAbove(_)
SectionAbove(i) ==
    IF i <= 1 THEN ""
    ELSE IF ParserHeaderAt(i - 1) # "" THEN ParserHeaderAt(i - 1)
    ELSE SectionAbove(i - 1)

\* The lines of the CONTENT sections that are neither headers, nor blank,
\* nor full-line comments.
ContentLinesLeft ==
    {i \in 1..Len(lines) :
        /\ SectionAbove(i) = "CONTENT"
        /\ ParserHeaderAt(i) = ""
        /\ Strip(lines[i]) # <<>>
        /\ ~IsFullLineComment(Strip(lines[i]))}

\* Some line of a METADATA section declares a field format_version: an '@',
\* then the name, then the end of the line, a blank or the '>'.
DeclaresVersion(line) ==
    /\ Len(line) >= 2 /\ line[1] = "@" /\ line[2] = "format_version"
    /\ (Len(line) = 2 \/ line[3] \in {" ", TAB, ">"})

VersionDeclared ==
    \E i \in 1..Len(lines) :
        SectionAbove(i) = "METADATA" /\ DeclaresVersion(Strip(lines[i]))

\* The line of the validator's header w: the last line that starts with it.
ValidatorHeaderLine(w) ==
    LET at == {i \in 1..Len(lines) : HeaderPrefixMatch(Strip(lines[i])) = w}
    IN  IF at = {} THEN 0 ELSE CHOOSE i \in at : \A j \in at : j <= i

\* Both sections are present and the header of late, which is to come after
\* the header of early, stands before it.
ValidatorRuleBroken(early, late) ==
    /\ ValidatorHeaderLine(early) # 0 /\ ValidatorHeaderLine(late) # 0
    /\ ValidatorHeaderLine(late) < ValidatorHeaderLine(early)

Count(seq, e) == Cardinality({i \in 1..Len(seq) : seq[i] = e})

OrderErrors == {"order_metadata_content", "order_defaults_metadata",
                "order_defaults_content"}

IsOtherError(e) == e \notin OrderErrors

\* The report of the five checks other than the order check.
ReportWithoutOrderCheck ==
    LET self == ValidatorInit(lines)
        r1 == ValidateSectionsPresence(self, NewReport)
        r3 == ValidateMetadata(self, r1)
        r4 == ValidateDefaults(self, r3)
        r5 == ValidateContent(self, r4)
    IN  ValidateVariables(self, r5)

\* The placeholders of the document at hand.
Placeholders == FindVars(Processed(doc.content))

\* The text {v}.
Literal(v) == <<"{">> \o v \o <<"}">>

\* s with every {v} replaced by the string form of kwargs[v] when v is a key
\* of kwargs, else of defaults[v] when v is a key of defaults, else kept.
RECURSIVE ReplacedByKey(_)
ReplacedByKey(s) ==
    IF s = <<>> THEN <<>>
    ELSE LET n == PlaceholderAt(s)
             v == Slice(s, 2, n - 1)
         IN  IF n = 0 THEN <<s[1]>> \o ReplacedByKey(Tail(s))
             ELSE (IF HasKey(kwargs, v) THEN Str(Get(kwargs, v))
                   ELSE IF HasKey(doc.defaults, v) THEN Str(Get(doc.defaults, v))
                   ELSE Literal(v))
                  \o ReplacedByKey(Slice(s, n + 1, Len(s)))

\* The same, except that a value of None replaces nothing: a {v} given as
\* None in kwargs stays, and so does one whose only value is a None default.
RECURSIVE ReplacedByValue(_)
ReplacedByValue(s) ==
    IF s = <<>> THEN <<>>
    ELSE LET n == PlaceholderAt(s)
             v == Slice(s, 2, n - 1)
         IN  IF n = 0 THEN <<s[1]>> \o ReplacedByValue(Tail(s))
             ELSE (IF HasKey(kwargs, v)
                   THEN (IF Get(kwargs, v) # NoneVal
                         THEN Str(Get(kwargs, v)) ELSE Literal(v))
                   ELSE IF HasKey(doc.defaults, v) /\ Get(doc.defaults, v) # NoneVal
                   THEN Str(Get(doc.defaults, v))
                   ELSE Literal(v))
                  \o ReplacedByValue(Slice(s, n + 1, Len(s)))

\* The one warning of the last process() call has a part of this kind.
WarnedPart(w, kind) ==
    Len(w) = 1 /\ \E i \in 1..Len(w[1]) : w[1][i].kind = kind

\* The keyword arguments of the last call, with every default the call fell
\* back on passed explicitly as well.
KwargsWithDefaults ==
    kwargs \o SelectSeq(doc.defaults,
                  LAMBDA it : it.k \in Placeholders /\ ~HasKey(kwargs, it.k))

Sorted(seq) == \A i, j \in 1..Len(seq) : i < j => StrLess(seq[i], seq[j])

----------------------------------------------------------------------------
(* Properties *)

\* C1: parsing the text to_text() gives for a parsed document succeeds and
\* yields a document with equal metadata, defaults and content.
C1_TextRoundTrip ==
    (round > 0 /\ "parse" \in done) => (err = "none" /\ DocEq(doc, doc0))

\* C2: when a [DEFAULTS] header follows a [CONTENT] header, a [METADATA]
\* header follows a [CONTENT] header, or a [METADATA] header follows a
\* [DEFAULTS] header, the parser fails and returns no document.
C2_ParserRejectsDisorder ==
    ( /\ "parse" \in done
      /\ \/ HeaderAfter("DEFAULTS", "CONTENT")
         \/ HeaderAfter("METADATA", "CONTENT")
         \/ HeaderAfter("METADATA", "DEFAULTS") )
    => (err # "none" /\ ~HasDoc)

C4_ReplacedByKey ==
    (pc = "process" /\ perr = "none") => out = ReplacedByKey(Processed(doc.content))

\* C4 amended: as stated for values other than None; a {v} whose kwargs
\* value is None stays as it is (the default is not used), and so does a
\* {v} absent from kwargs whose default is None.
C4_ReplacedByValue ==
    (pc = "process" /\ perr = "none") => out = ReplacedByValue(Processed(doc.content))

\* A call that replaces one placeholder from defaults and leaves the one
\* given as None.
C4_Witness ==
    /\ pc = "process" /\ perr = "none"
    /\ \E i \in 1..Len(kwargs) : kwargs[i].v = NoneVal /\ kwargs[i].k \in Placeholders
    /\ \E v \in Placeholders : ~HasKey(kwargs, v) /\ HasKey(doc.defaults, v)
    /\ out # Processed(doc.content)

\* C5: process() fails exactly when some key of kwargs is no placeholder of
\* the content; it then returns no string and its message lists exactly
\* those keys, sorted.
C5_UnknownKwargs ==
    pc = "process" =>
        /\ (perr = "unknown_var") <=> (Keys(kwargs) \ Placeholders # {})
        /\ perr = "unknown_var" =>
              /\ out = <<>> /\ warned = <<>>
              /\ {errkeys[i] : i \in 1..Len(errkeys)} = Keys(kwargs) \ Placeholders
              /\ Sorted(errkeys)

\* A failed call whose message lists two keys.
C5_Witness ==
    pc = "process" /\ perr = "unknown_var" /\ Len(errkeys) = 2

\* C6 as stated: at most one warning; none when every placeholder is a key
\* of kwargs; otherwise one, with the defaults-used part iff some placeholder
\* is taken from defaults and the unresolved part iff some placeholder is a
\* key of neither; and passing the defaults explicitly gives the same string.
C6_WarningByKey ==
    (pc = "process" /\ perr = "none") =>
        /\ Len(warned) <= 1
        /\ (\A v \in Placeholders : HasKey(kwargs, v)) => warned = <<>>
        /\ ~(\A v \in Placeholders : HasKey(kwargs, v)) =>
              /\ Len(warned) = 1
              /\ WarnedPart(warned, "defaults_used") <=>
                    \E v \in Placeholders :
                        ~HasKey(kwargs, v) /\ HasKey(doc.defaults, v)
              /\ WarnedPart(warned, "not_provided") <=>
                    \E v \in Placeholders :
                        ~HasKey(kwargs, v) /\ ~HasKey(doc.defaults, v)
        /\ Process(doc, KwargsWithDefaults).out = out

\* C6 amended: at most one warning; none when every placeholder is given in
\* kwargs with a value other than None; otherwise one, with the
\* defaults-used part iff some placeholder is absent from kwargs and a key of
\* defaults, and the unresolved part iff some placeholder resolves to None
\* (given as None in kwargs, or absent from kwargs with no default other
\* than None); and passing the defaults explicitly gives the same string.
C6_WarningByValue ==
    (pc = "process" /\ perr = "none") =>
        LET given(v) == HasKey(kwargs, v) /\ Get(kwargs, v) # NoneVal
        IN  /\ Len(warned) <= 1
            /\ (\A v \in Placeholders : given(v)) => warned = <<>>
            /\ ~(\A v \in Placeholders : given(v)) =>
                  /\ Len(warned) = 1
                  /\ WarnedPart(warned, "defaults_used") <=>
                        \E v \in Placeholders :
                            ~HasKey(kwargs, v) /\ HasKey(doc.defaults, v)
                  /\ WarnedPart(warned, "not_provided") <=>
                        \E v \in Placeholders :
                            \/ HasKey(kwargs, v) /\ Get(kwargs, v) = NoneVal
                            \/ /\ ~HasKey(kwargs, v)
                               /\ GetOr(doc.defaults, v, NoneVal) = NoneVal
            /\ Process(doc, KwargsWithDefaults).out = out

\* A call warned about with both parts, one placeholder being given as None.
C6_Witness ==
    /\ pc = "process" /\ perr = "none"
    /\ WarnedPart(warned, "defaults_used") /\ WarnedPart(warned, "not_provided")
    /\ \E i \in 1..Len(kwargs) : kwargs[i].v = NoneVal

\* C7: a process() call, whether it returns or raises, leaves the
\* document's metadata, defaults and content as they were.
C7_ProcessKeepsDocument == [][pc' = "process" => doc' = doc]_vars

\* A call that replaced placeholders with keyword values and defaults.
C7_Witness ==
    /\ pc = "process" /\ perr = "none"
    /\ kwargs # << >> /\ warned # <<>> /\ out # doc.content

\* C8: the parser fails and returns no document when the text has no
\* [CONTENT] header or its CONTENT sections hold no line besides blank lines
\* and full-line comments.
C8_ContentRequired ==
    "parse" \in done =>
        ( ( \/ \A i \in 1..Len(lines) : ParserHeaderAt(i) # "CONTENT"
            \/ ContentLinesLeft = {} )
          => (err # "none" /\ ~HasDoc) )

\* A text with a declared format_version and a CONTENT section of comments
\* only, refused for its content.
C8_Witness ==
    /\ "parse" \in done /\ err = "content" /\ VersionDeclared
    /\ \E i \in 1..Len(lines) :
          SectionAbove(i) = "CONTENT" /\ IsFullLineComment(Strip(lines[i]))

\* C9: the parser fails and returns no document when no METADATA section
\* declares format_version; every parsed document has the key.
C9_VersionRequired ==
    "parse" \in done =>
        /\ ~VersionDeclared => (err # "none" /\ ~HasDoc)
        /\ err = "none" => HasKey(doc.metadata, <<"format_version">>)

\* A text with a METADATA section, another field and content, refused for
\* its missing format_version.
C9_Witness ==
    /\ "parse" \in done /\ err = "format_version" /\ ContentLinesLeft # {}
    /\ \E i \in 1..Len(lines) :
          SectionAbove(i) = "METADATA" /\ StartsWith(Strip(lines[i]), <<"@">>)

\* C10: a report is not valid exactly when it holds an error.
C10_ValidIffNoErrors ==
    "validate" \in done => (report.valid <=> report.errors = <<>>)

\* A valid report that holds a warning.
C10_Witness ==
    "validate" \in done /\ report.valid /\ report.warnings # <<>>

\* C11: PromptValidator(text=t).validate() raises nothing and returns a
\* report with valid, errors and warnings, whatever the text (empty, without
\* headers, with repeated or disordered headers); PromptValidator() with
\* neither text nor path is the only call that fails.
C11_ValidatorNeverRaises ==
    /\ pc = "validate" =>
          /\ verr = "none" /\ "validate" \in done
          /\ DOMAIN report = {"valid", "errors", "warnings"}
          /\ report.valid \in BOOLEAN
          /\ report.errors \in Seq(STRING)
          /\ \A i \in 1..Len(report.warnings) :
                report.warnings[i].kind \in STRING
    /\ pc = "validate_none" => (verr = "no_input" /\ "validate" \notin done)

\* A report on a text that repeats a header and is refused by the parser.
C11_Witness ==
    /\ pc = "validate" /\ verr = "none" /\ report.errors # << >>
    /\ \E i, j \in 1..Len(lines) :
          i < j /\ ParserHeaderAt(i) # "" /\ ParserHeaderAt(i) = ParserHeaderAt(j)

\* The lines of the CONTENT sections of the text, their headers apart.
ContentLines ==
    {i \in 1..Len(lines) : SectionAbove(i) = "CONTENT" /\ ParserHeaderAt(i) = ""}

\* C12: when the text has a [CONTENT] header and its CONTENT section holds
\* blank lines only, or no line at all, the report holds the empty-CONTENT
\* error and is not valid.
C12_EmptyContentReported ==
    ( /\ "validate" \in done
      /\ \E i \in 1..Len(lines) : ParserHeaderAt(i) = "CONTENT"
      /\ \A i \in ContentLines : Strip(lines[i]) = << >> )
    => ("empty_content" \in {report.errors[k] : k \in 1..Len(report.errors)}
        /\ ~report.valid)

\* A METADATA line that declares format_version with a value.
DeclaresVersionValue(line) ==
    LET l == Strip(line)
    IN  /\ Len(l) >= 4 /\ l[1] = "@" /\ l[2] = "format_version" /\ IsSpace(l[3])

\* The placeholder names of the CONTENT sections: the {name} left on a line
\* once its (%...%) spans are removed and {{name}} is read as {name}.
ContentPlaceholders ==
    UNION {FindVars(NormalizeBraces(StripInlineComments(lines[i]))) :
             i \in ContentLines}

\* The text declares format_version in a METADATA section, has no [DEFAULTS]
\* header, and its content has a placeholder.
NoDefaultsCase ==
    /\ \E i \in 1..Len(lines) :
          SectionAbove(i) = "METADATA" /\ DeclaresVersionValue(lines[i])
    /\ \A i \in 1..Len(lines) : ParserHeaderAt(i) # "DEFAULTS"
    /\ ContentPlaceholders # {}

\* The report is valid, without errors, and holds the warning that lists the
\* placeholders of the content, sorted.
NoDefaultsReport ==
    /\ report.valid /\ report.errors = << >>
    /\ \E k \in 1..Len(report.warnings) :
          /\ report.warnings[k].kind = "no_defaults_section"
          /\ report.warnings[k].names = SortedSeq(ContentPlaceholders)

C14_JsonRoundTrip ==
    pc = "from_json" => (jerr = "none" /\ DocEq(doc, doc0))

\* C15: the metadata of a document made by the parser or the builder holds
\* the key format_version with a non-empty value, whatever add, remove and
\* update calls followed.
C15_VersionKept ==
    DocAtHand =>
        /\ HasKey(doc.metadata, <<"format_version">>)
        /\ Get(doc.metadata, <<"format_version">>) # << >>

\* The line is a field declaration: trimmed, it starts with '@'.
IsDecl(i) == StartsWith(Strip(lines[i]), <<"@">>)

\* The declaration opens a multiline field: trimmed, it ends with a bare
\* '>' after the key.
IsOpener(i) == IsDecl(i) /\ EndsWith(Strip(lines[i]), <<">">>)

\* Line i lies in a METADATA or DEFAULTS section and is no header.
InFieldSection(i) ==
    SectionAbove(i) \in {"METADATA", "DEFAULTS"} /\ ParserHeaderAt(i) = ""

\* A multiline field is open when line i is read: the nearest declaration
\* above it in its section is an opener.
RECURSIVE OpenBefore(_)
OpenBefore(i) ==
    IF i <= 1 \/ ParserHeaderAt(i - 1) # "" THEN FALSE
    ELSE IF IsDecl(i - 1) THEN IsOpener(i - 1)
    ELSE OpenBefore(i - 1)

\* Line i is neither blank, nor a comment, nor a declaration.
IsPlainLine(i) ==
    LET l == Strip(lines[i])
    IN  /\ l # << >> /\ l[1] \notin {"@", "#"} /\ ~IsFullLineComment(l)

\* C16: the parser fails when a METADATA or DEFAULTS section holds a
\* non-blank line that is neither a comment nor a field declaration while
\* no multiline field is open; it never returns a document for such a text.
C16_MalformedLineRejected ==
    ( /\ "parse" \in done
      /\ \E i \in 1..Len(lines) :
            InFieldSection(i) /\ IsPlainLine(i) /\ ~OpenBefore(i) )
    => (err # "none" /\ ~HasDoc)

\* The key of a declaration: what follows the '@' up to the first blank or
\* the '>'.
DeclKey(l) ==
    LET stops == {j \in 2..Len(l) : IsSpace(l[j]) \/ l[j] = ">"}
    IN  IF stops = {} THEN Slice(l, 2, Len(l))
        ELSE Slice(l, 2, (CHOOSE j \in stops : \A m \in stops : j <= m) - 1)

\* The value of a single-line declaration: what follows the first run of
\* blanks after the key, trimmed; empty when there is no blank.
DeclValue(l) ==
    LET blanks == {j \in 2..Len(l) : IsSpace(l[j])}
    IN  IF blanks = {} THEN << >>
        ELSE Strip(Slice(l, CHOOSE j \in blanks : \A m \in blanks : j <= m, Len(l)))

\* Line i is a single-line declaration of the METADATA section with an
\* empty value.
EmptyMetadataDecl(i) ==
    /\ SectionAbove(i) = "METADATA" /\ IsDecl(i) /\ ~IsOpener(i)
    /\ DeclValue(Strip(lines[i])) = << >>

\* C17: the parser fails, citing the line, when a single-line declaration of
\* the METADATA section has an empty value, and for an empty value only: a
\* declaration whose value follows the key after any run of blanks is
\* accepted, and no parsed document holds a metadata key with an empty value.
C17_EmptyMetadataValue ==
    "parse" \in done =>
        /\ (\E i \in 1..Len(lines) : EmptyMetadataDecl(i)) =>
              /\ err = "empty_value" /\ ~HasDoc
              /\ EmptyMetadataDecl(errline)
              /\ \A i \in 1..(errline - 1) : ~EmptyMetadataDecl(i)
        /\ err = "empty_value" => EmptyMetadataDecl(errline)
        /\ err = "none" =>
              \A n \in 1..Len(doc.metadata) : doc.metadata[n].v # << >>

\* The lines of the text without the '#' lines of its METADATA and DEFAULTS
\* sections.
WithoutHashLines ==
    LET keep == {i \in 1..Len(lines) :
                    ~(InFieldSection(i) /\ StartsWith(Strip(lines[i]), <<"#">>))}
        nth[n \in 0..Len(lines)] ==
            IF n = 0 THEN << >>
            ELSE IF n \in keep THEN Append(nth[n - 1], lines[n]) ELSE nth[n - 1]
    IN  nth[Len(lines)]

\* C18: a '#' line of a METADATA or DEFAULTS section is ignored by the
\* parser, whether a multiline field is open or not (the text parses as it
\* does without these lines), and the validator has no warning for it.
C18_HashCommentIgnored ==
    /\ "parse" \in done =>
          /\ (err = "none") = Parse(WithoutHashLines).ok
          /\ doc = Parse(WithoutHashLines).doc
    /\ "validate" \in done =>
          \A k \in 1..Len(report.warnings) :
              report.warnings[k].kind = "invalid_line" =>
                  ~StartsWith(Strip(report.warnings[k].text), <<"#">>)

\* The dict of the document that the section of line i is parsed into.
SectionDict(i) ==
    IF SectionAbove(i) = "METADATA" THEN doc.metadata ELSE doc.defaults

\* The key declared on line i is declared on no other line of the text.
DeclaredOnce(i) ==
    \A j \in 1..Len(lines) :
        (j # i /\ IsDecl(j)) => DeclKey(Strip(lines[j])) # DeclKey(Strip(lines[i]))

\* The value of the multiline field opened on line i: a newline and the
\* trimmed line, for each line up to the next declaration or header.
RECURSIVE Continuation(_)
Continuation(i) ==
    IF i > Len(lines) \/ ParserHeaderAt(i) # "" \/ IsDecl(i) THEN << >>
    ELSE (IF IsPlainLine(i) THEN <<NL>> \o Strip(lines[i]) ELSE << >>)
         \o Continuation(i + 1)

\* C19: a single-line declaration closes the open multiline field: the
\* value of a field opened by `@a >` and followed, after its continuation
\* lines, by `@b value` (key and value a blank apart) holds the lines up to
\* that declaration only, and b holds its value only.
C19_SingleLineClosesMultiline ==
    ("parse" \in done /\ err = "none") =>
        \A i, j \in 1..Len(lines) :
            ( /\ i < j /\ InFieldSection(i) /\ InFieldSection(j)
              /\ \A m \in i..j : ParserHeaderAt(m) = "" /\ ~StartsWith(Strip(lines[m]), <<"#">>)
              /\ IsOpener(i) /\ DeclaredOnce(i)
              /\ \A m \in (i + 1)..(j - 1) : ~IsDecl(m)
              /\ IsDecl(j) /\ ~Has(lines[j], ">") /\ ~Has(lines[j], TAB)
              /\ DeclaredOnce(j) )
            => /\ GetOr(SectionDict(i), DeclKey(Strip(lines[i])), NoneVal)
                    = Continuation(i + 1)
               /\ GetOr(SectionDict(j), DeclKey(Strip(lines[j])), NoneVal)
                    = DeclValue(Strip(lines[j]))

\* C20: a declaration opens a multiline field only when it ends with a bare
\* '>'; `@key value` whose value merely holds a '>' is stored as the field
\* key with that whole value.
C20_GreaterThanInValue ==
    ("parse" \in done /\ err = "none") =>
        \A i \in 1..Len(lines) :
            ( /\ InFieldSection(i) /\ IsDecl(i) /\ ~IsOpener(i) /\ DeclaredOnce(i)
              /\ Has(DeclValue(Strip(lines[i])), ">") )
            => GetOr(SectionDict(i), DeclKey(Strip(lines[i])), NoneVal)
                   = DeclValue(Strip(lines[i]))

\* str.rstrip(): the string without its trailing blanks.
RStrip(s) ==
    IF \A i \in 1..Len(s) : IsSpace(s[i]) THEN << >>
    ELSE SubSeq(s, 1, CHOOSE i \in 1..Len(s) :
                          ~IsSpace(s[i]) /\ \A j \in (i+1)..Len(s) : IsSpace(s[j]))

\* The non-blank lines from line i up to the next header, as written.
RECURSIVE BlockFrom(_)
BlockFrom(i) ==
    IF i > Len(lines) \/ ParserHeaderAt(i) # "" THEN << >>
    ELSE (IF Strip(lines[i]) = << >> THEN << >> ELSE <<lines[i]>>)
         \o BlockFrom(i + 1)

\* The lines after the opener on line i, up to the next header, are
\* continuation lines: plain lines or blank ones.
OnlyContinuationAfter(i) ==
    \A j \in (i + 1)..Len(lines) :
        (\A m \in i..j : ParserHeaderAt(m) = "")
            => (Strip(lines[j]) = << >> \/ IsPlainLine(j))

\* The value of a multiline field with the continuation lines b: the text
\* of the first line, then each later line with its indentation, a newline
\* between them.
BlockValue(b) ==
    Join(<<Strip(b[1])>> \o [n \in 1..(Len(b) - 1) |-> RStrip(b[n + 1])], <<NL>>)

\* C21: the value of a multiline field `@key >` followed by continuation
\* lines l1..ln (n >= 1) is the lines in source order with single newlines
\* between them: it begins with the text of l1, without a leading newline,
\* and the lines after the first keep their indentation.
C21_MultilineValue ==
    ("parse" \in done /\ err = "none") =>
        \A i \in 1..Len(lines) :
            ( /\ InFieldSection(i) /\ IsOpener(i) /\ DeclaredOnce(i)
              /\ OnlyContinuationAfter(i)
              /\ BlockFrom(i + 1) # << >> )
            => GetOr(SectionDict(i), DeclKey(Strip(lines[i])), NoneVal)
                   = BlockValue(BlockFrom(i + 1))

\* The report has an invalid-line warning for line i.
WarnedLine(i) ==
    \E k \in 1..Len(report.warnings) :
        report.warnings[k] = Warning("invalid_line", SectionAbove(i), lines[i], << >>)

\* C22: for a non-blank line of METADATA or DEFAULTS that is neither a
\* comment nor a field declaration, the validator has an invalid-line
\* warning exactly when no multiline block is open: the continuation lines
\* of a `@key >` declaration are not warned about.
C22_WarningOutsideMultiline ==
    "validate" \in done =>
        \A i \in 1..Len(lines) :
            (InFieldSection(i) /\ IsPlainLine(i))
                => (WarnedLine(i) <=> ~OpenBefore(i))

\* The lines of the text strictly after the header the validator records
\* for section w and strictly before the nearest header line after it.
LinesOwnedBy(w) ==
    LET p     == SectionPositions(lines)[w]
        after == {i \in (p + 1)..Len(lines) :
                     HeaderPrefixMatch(Strip(lines[i])) # ""}
        stop  == IF after = {} THEN Len(lines) + 1
                 ELSE CHOOSE e \in after : \A f \in after : e <= f
    IN  Slice(lines, p + 1, stop - 1)

\* C23: for every section present in the text the validator extracts
\* exactly the lines strictly after the section's header and strictly
\* before the nearest header line after it, also when another header
\* follows at once; an extracted section holds no header line.
C23_SectionExtraction ==
    "validate" \in done =>
        \A w \in HeaderWords :
            SectionPositions(lines)[w] # 0 =>
                LET sect == ValidatorInit(lines).sections[w]
                IN  /\ sect = LinesOwnedBy(w)
                    /\ \A n \in 1..Len(sect) :
                           HeaderPrefixMatch(Strip(sect[n])) = ""

\* The CONTENT lines from line i on that are neither headers, nor blank,
\* nor full-line comments, trimmed, with whatever comments they hold.
RECURSIVE ContentAsWritten(_)
ContentAsWritten(i) ==
    IF i > Len(lines) THEN << >>
    ELSE (IF i \in ContentLinesLeft THEN <<Strip(lines[i])>> ELSE << >>)
         \o ContentAsWritten(i + 1)

\* C24: the parser stores every CONTENT line that is not a full-line
\* comment with its inline (%...%) spans intact: the content of the parsed
\* document is these lines as written.
C24_InlineCommentsKept ==
    ("parse" \in done /\ err = "none") =>
        doc.content = Join(ContentAsWritten(1), <<NL>>)

\* s without its comment spans: each "(%" is cut off together with what
\* follows it up to and including the next "%)".
RECURSIVE WithoutSpans(_)
WithoutSpans(s) ==
    IF s = << >> THEN << >>
    ELSE LET ends == {j \in 3..(Len(s) - 1) : s[j] = "%" /\ s[j + 1] = ")"}
         IN  IF Len(s) >= 4 /\ s[1] = "(" /\ s[2] = "%" /\ ends # {}
             THEN WithoutSpans(Slice(s,
                      (CHOOSE j \in ends : \A m \in ends : j <= m) + 2, Len(s)))
             ELSE <<s[1]>> \o WithoutSpans(Tail(s))

\* C25: process and variable derivation remove every comment span of the
\* content, from each "(%" to the next "%)" whatever lies between, before
\* placeholders are collected and substituted: the variables are the
\* placeholders outside the spans, and the returned string is the content
\* outside the spans with these substituted.
C25_CommentSpansRemoved ==
    pc = "process" =>
        /\ DOMAIN GetVariablesInfo(doc)
               = FindVars(NormalizeBraces(WithoutSpans(doc.content)))
        /\ perr = "none" =>
               out = ReplacedByValue(NormalizeBraces(WithoutSpans(doc.content)))

\* C26: for a document with a non-empty content, the document built from
\* its to_builder() has the same metadata, the value of format_version
\* included, the same defaults and the same content.
C26_ToBuilderKeepsData ==
    pc = "rebuilt" => DocEq(doc, doc0)

\* C27: once the document exists, whether made by the constructor, by
\* build() or by from_json, its metadata and defaults are what its creation
\* and its own operations left: writing to the mappings it was made from,
\* to the builder or to another document changes neither.
C27_NoSharedState ==
    Held("doc") =>
        /\ DictEq(doc.metadata, doc0.metadata)
        /\ DictEq(doc.defaults, doc0.defaults)

\* C28: a text the validator finds valid is a text the parser accepts.
C28_ValidImpliesParses ==
    ("parse" \in done /\ "validate" \in done /\ report.valid) => err = "none"

\* The variables the report names as being without a default value.
ReportedWithoutDefault ==
    UNION { {report.warnings[k].names[n] : n \in 1..Len(report.warnings[k].names)} :
            k \in {m \in 1..Len(report.warnings) :
                      report.warnings[m].kind
                          \in {"undefined_vars", "no_defaults_section"}} }

\* C29: for a text that parses and has a [DEFAULTS] section, the variables
\* the validator reports as lacking a default value are exactly the
\* placeholders for which get_variables_info() of the parsed document has
\* has_default = false.
C29_UndefinedVariablesAgree ==
    ( /\ "parse" \in done /\ "validate" \in done /\ err = "none"
      /\ \E i \in 1..Len(lines) : ParserHeaderAt(i) = "DEFAULTS" )
    => ReportedWithoutDefault
           = {v \in DOMAIN GetVariablesInfo(doc) :
                 ~GetVariablesInfo(doc)[v].has_default}

\* C30: in a text the parser accepts no [DEFAULTS] header line stands
\* after a [CONTENT] header line, whichever occurrences of repeated headers
\* are taken.
C30_NoDefaultsAfterContent ==
    ("parse" \in done /\ err = "none") => ~HeaderAfter("DEFAULTS", "CONTENT")

====
